---- MODULE Spec2Model ----
(***************************************************************************)
(* Model of print_data.cpp: main() parses the command line with getopt,    *)
(* fills an rc_mpu_config_t, initialises the DMP, prints a header,         *)
(* registers __print_data as DMP callback and sleeps in a loop until the   *)
(* SIGINT handler clears `running`; then it powers the MPU off.            *)
(*                                                                         *)
(* argv elements and optarg are sequences of one-character strings, so     *)
(* getopt and atoi are computed character by character.                    *)
(***************************************************************************)
EXTENDS Integers, Sequences, FiniteSets, TLC

VARIABLES
    argv,             \* the command line, argv[1] is the program name (C argv[0])
    optind,           \* getopt's optind (C index: argv element optind is argv[optind+1])
    nextchar,         \* getopt's position inside a clustered option element, 0 = none
    opts,             \* history: the values getopt has returned so far
    pc,               \* main's position
    running,          \* static int running
    enable_mag,       \* static int enable_mag
    orientation_menu, \* static int orientation_menu
    show_something,   \* main's local show_something
    sample_rate,      \* main's local sample_rate
    conf,             \* main's local rc_mpu_config_t conf
    handler,          \* TRUE once signal(SIGINT, __signal_handler) has been called
    initCalled,       \* TRUE once rc_mpu_initialize_dmp has been called
    initConf,         \* the conf rc_mpu_initialize_dmp was called with
    initRet,          \* what rc_mpu_initialize_dmp returned
    callback,         \* TRUE while __print_data is the registered DMP callback
    calls,            \* history: the rc_mpu_* library calls, in order
    out,              \* history: what was printed on stdout, in order
    retval,           \* the process's exit status once pc = "done"
    nsig,             \* number of SIGINTs handled by __signal_handler
    nstdin,           \* number of characters consumed from stdin
    ndata             \* number of DMP interrupts delivered to the callback

vars == <<argv, optind, nextchar, opts, pc, running, enable_mag, orientation_menu,
          show_something, sample_rate, conf, handler, initCalled, initConf, initRet,
          callback, calls, out, retval, nsig, nstdin, ndata>>

----------------------------------------------------------------------------
(* Bounds of the model *)

MaxArgs == 3
MaxSignals == 2
MaxStdin == 1
MaxData == 1

(* Program constants *)

I2C_BUS == 2
GPIO_INT_PIN_CHIP == 3
GPIO_INT_PIN_PIN == 21
DefaultSampleRate == 100
MaxRate == 200
MinRate == 4

----------------------------------------------------------------------------
(* Characters and strings *)

Digits == <<"0", "1", "2", "3", "4", "5", "6", "7", "8", "9">>

IsDigit(ch) == \E i \in 1..Len(Digits) : Digits[i] = ch

DigitVal(ch) == (CHOOSE i \in 1..Len(Digits) : Digits[i] = ch) - 1

\* the value of the leading run of decimal digits of s from position k on
RECURSIVE AtoiDigits(_, _, _)
AtoiDigits(s, k, acc) ==
    IF k <= Len(s) /\ IsDigit(s[k])
    THEN AtoiDigits(s, k + 1, acc * 10 + DigitVal(s[k]))
    ELSE acc

\* atoi(): optional sign, then the leading digits; 0 when there are none
Atoi(s) ==
    IF s = <<>> THEN 0
    ELSE IF s[1] = "-" THEN 0 - AtoiDigits(s, 2, 0)
    ELSE IF s[1] = "+" THEN AtoiDigits(s, 2, 0)
    ELSE AtoiDigits(s, 1, 0)

ProgName == <<"p">>

\* the argv elements the command lines are built from
Tokens ==
    { <<"-", "r">>, <<"-", "m">>, <<"-", "o">>, <<"-", "h">>, <<"-", "x">>,
      <<"-", "-">>, <<"-", "o", "m", "x">>,
      <<"1", "0", "0">>, <<"7">>, <<"2", "5", "0">> }

RECURSIVE SeqsUpTo(_, _)
SeqsUpTo(S, n) ==
    IF n = 0 THEN { <<>> }
    ELSE LET shorter == SeqsUpTo(S, n - 1)
         IN  shorter \cup { Append(s, t) : s \in { x \in shorter : Len(x) = n - 1 }, t \in S }

----------------------------------------------------------------------------
(* getopt(argc, argv, "r:m:ho") with opterr = 0, as GNU libc computes it:   *)
(* elements that are not options are passed over (permuted to the end),    *)
(* "--" ends the options, a character missing from the option string or an *)
(* option whose argument is missing yields '?'.                            *)

OptString == <<"r", ":", "m", ":", "h", "o">>

Argc(av) == Len(av)

Arg(av, i) == av[i + 1]

InOptString(ch) == ch # ":" /\ \E i \in 1..Len(OptString) : OptString[i] = ch

TakesArg(ch) ==
    \E i \in 1..Len(OptString) - 1 : OptString[i] = ch /\ OptString[i + 1] = ":"

\* an element is an option element when it starts with '-' and is not "-" alone
IsOptionElem(t) == Len(t) >= 2 /\ t[1] = "-"

RECURSIVE SkipNonOptions(_, _)
SkipNonOptions(av, i) ==
    IF i < Argc(av) /\ ~IsOptionElem(Arg(av, i))
    THEN SkipNonOptions(av, i + 1)
    ELSE i

GetoptResult(ch, oi, nc, oa) == [c |-> ch, optind |-> oi, nextchar |-> nc, optarg |-> oa]

\* the option character at position k of argv element i
GetoptScan(av, i, k) ==
    LET tok   == Arg(av, i)
        ch    == tok[k]
        atEnd == k = Len(tok)
    IN  IF ~InOptString(ch)
        THEN GetoptResult("?", IF atEnd THEN i + 1 ELSE i, IF atEnd THEN 0 ELSE k + 1, <<>>)
        ELSE IF TakesArg(ch)
        THEN IF ~atEnd
             THEN GetoptResult(ch, i + 1, 0, SubSeq(tok, k + 1, Len(tok)))
             ELSE IF i + 1 >= Argc(av)
             THEN GetoptResult("?", i + 1, 0, <<>>)
             ELSE GetoptResult(ch, i + 2, 0, Arg(av, i + 1))
        ELSE GetoptResult(ch, IF atEnd THEN i + 1 ELSE i, IF atEnd THEN 0 ELSE k + 1, <<>>)

\* one call of getopt; c = "end" stands for the return value -1
Getopt(av, oi, nc) ==
    IF nc # 0
    THEN GetoptScan(av, oi, nc)
    ELSE LET i == SkipNonOptions(av, oi)
         IN  IF i >= Argc(av)
             THEN GetoptResult("end", i, 0, <<>>)
             ELSE IF Arg(av, i) = <<"-", "-">>
             THEN GetoptResult("end", i + 1, 0, <<>>)
             ELSE GetoptScan(av, i, 2)

----------------------------------------------------------------------------
(* The configuration struct *)

\* storage of conf before rc_mpu_default_config() has filled it (never read)
ZeroConf ==
    [i2c_bus |-> 0, gpio_interrupt_pin_chip |-> 0, gpio_interrupt_pin |-> 0,
     dmp_sample_rate |-> 0, enable_magnetometer |-> 0, orient |-> "NONE"]

\* rc_mpu_default_config(): the fields this program relies on
DefaultConfig ==
    [i2c_bus |-> 0, gpio_interrupt_pin_chip |-> 0, gpio_interrupt_pin |-> 0,
     dmp_sample_rate |-> DefaultSampleRate, enable_magnetometer |-> 0,
     orient |-> "ORIENTATION_Z_UP"]

\* the range test of the -r case
RateRejected(r) == r > MaxRate \/ r < MinRate

\* what rc_mpu_initialize_dmp can return
InitRetCodes == {-1, 0, 1}

InitFailedNegOnly(rc) == rc < 0

\* if(rc_mpu_initialize_dmp(&data, conf))
InitFailed(rc) == rc # 0

LoopCondNegated(r) == r = 0

\* while(running)
LoopCond(r) == r # 0

AfterInitOkNoHeader == "set_cb"

\* where main continues after a successful initialisation
AfterInitOk == "header"

\* the characters read from stdin by the orientation menu
StdinChars == {"1", "4", "8", "q", "nl", "x"}

OrientOf(ch) ==
    CASE ch = "1" -> "ORIENTATION_Z_UP"
      [] ch = "2" -> "ORIENTATION_Z_DOWN"
      [] ch = "3" -> "ORIENTATION_X_UP"
      [] ch = "4" -> "ORIENTATION_X_DOWN"
      [] ch = "5" -> "ORIENTATION_Y_UP"
      [] ch = "6" -> "ORIENTATION_Y_DOWN"
      [] ch = "7" -> "ORIENTATION_X_FORWARD"
      [] ch = "8" -> "ORIENTATION_X_BACK"

IsOrientChar(ch) == ch \in {"1", "2", "3", "4", "5", "6", "7", "8"}

Alive == pc \notin {"done", "killed"}

----------------------------------------------------------------------------
(* The program *)

Init ==
    /\ argv \in { <<ProgName>> \o a : a \in SeqsUpTo(Tokens, MaxArgs) }
    /\ optind = 1
    /\ nextchar = 0
    /\ opts = <<>>
    /\ pc = "start"
    /\ running = 0
    /\ enable_mag = 0
    /\ orientation_menu = 0
    /\ show_something = 0
    /\ sample_rate = 0
    /\ conf = ZeroConf
    /\ handler = FALSE
    /\ initCalled = FALSE
    /\ initConf = ZeroConf
    /\ initRet = 0
    /\ callback = FALSE
    /\ calls = <<>>
    /\ out = <<>>
    /\ retval = 0
    /\ nsig = 0
    /\ nstdin = 0
    /\ ndata = 0

getoptVars == <<optind, nextchar, opts>>
globalVars == <<running, enable_mag, orientation_menu>>
localVars  == <<show_something, sample_rate, conf>>
libVars    == <<initCalled, initConf, initRet, callback, calls>>
envVars    == <<nsig, nstdin, ndata>>

\* return from main (or exit()) with status rv
Return(rv) == pc' = "done" /\ retval' = rv

\* lines 153-162: default config, bus and interrupt pin, opterr = 0
Start ==
    /\ pc = "start"
    /\ conf' = [DefaultConfig EXCEPT !.i2c_bus = I2C_BUS,
                                     !.gpio_interrupt_pin_chip = GPIO_INT_PIN_CHIP,
                                     !.gpio_interrupt_pin = GPIO_INT_PIN_PIN]
    /\ show_something' = 0
    /\ calls' = Append(calls, "rc_mpu_default_config")
    /\ pc' = "parse"
    /\ UNCHANGED <<argv, getoptVars, globalVars, sample_rate, handler, initCalled,
                   initConf, initRet, callback, out, retval, envVars>>

\* lines 163-192: one evaluation of the loop condition and, if it holds, the switch
ParseStep ==
    /\ pc = "parse"
    /\ LET g  == Getopt(argv, optind, nextchar)
           sr == Atoi(g.optarg)
       IN  /\ optind' = g.optind
           /\ nextchar' = g.nextchar
           /\ opts' = Append(opts, g.c)
           /\ IF g.c = "end" \/ ~(Argc(argv) > 1)
              THEN /\ pc' = "check_show"
                   /\ UNCHANGED <<globalVars, localVars, out, retval>>
              ELSE IF g.c = "r"
              THEN /\ sample_rate' = sr
                   /\ show_something' = 1
                   /\ IF RateRejected(sr)
                      THEN /\ out' = Append(out, "sample_rate must be between 4 & 200")
                           /\ Return(-1)
                           /\ UNCHANGED conf
                      ELSE /\ conf' = [conf EXCEPT !.dmp_sample_rate = sr]
                           /\ UNCHANGED <<pc, out, retval>>
                   /\ UNCHANGED globalVars
              ELSE IF g.c = "m"
              THEN /\ enable_mag' = 1
                   /\ conf' = [conf EXCEPT !.enable_magnetometer = 1]
                   /\ UNCHANGED <<pc, running, orientation_menu, show_something,
                                  sample_rate, out, retval>>
              ELSE IF g.c = "o"
              THEN /\ orientation_menu' = 1
                   /\ UNCHANGED <<pc, running, enable_mag, localVars, out, retval>>
              ELSE IF g.c = "h"
              THEN /\ out' = Append(out, "usage")
                   /\ Return(-1)
                   /\ UNCHANGED <<globalVars, localVars>>
              ELSE /\ out' = out \o <<"opt: ?", "invalid argument", "usage">>
                   /\ Return(-1)
                   /\ UNCHANGED <<globalVars, localVars>>
    /\ UNCHANGED <<argv, handler, libVars, envVars>>

\* lines 194-198
CheckShow ==
    /\ pc = "check_show"
    /\ IF show_something = 0
       THEN /\ out' = out \o <<"usage", "please enable an option to print some data">>
            /\ Return(-1)
       ELSE /\ pc' = "orient"
            /\ UNCHANGED <<out, retval>>
    /\ UNCHANGED <<argv, getoptVars, globalVars, localVars, handler, libVars, envVars>>

\* line 200, and the menu __orientation_prompt prints before it reads (lines 90-100)
OrientCheck ==
    /\ pc = "orient"
    /\ IF orientation_menu # 0
       THEN /\ out' = Append(out, "orientation menu")
            /\ pc' = "prompt"
       ELSE /\ pc' = "install"
            /\ UNCHANGED out
    /\ UNCHANGED <<argv, getoptVars, globalVars, localVars, handler, libVars, retval,
                   envVars>>

\* lines 101-137: one getchar() of __orientation_prompt and its switch;
\* stdin holds at most MaxStdin characters, then EOF
PromptRead ==
    /\ pc = "prompt"
    /\ \E ch \in (IF nstdin < MaxStdin THEN StdinChars \cup {"EOF"} ELSE {"EOF"}) :
          /\ nstdin' = IF ch = "EOF" THEN nstdin ELSE nstdin + 1
          /\ IF ch = "EOF"
             THEN /\ conf' = [conf EXCEPT !.orient = "ORIENTATION_Z_UP"]
                  /\ pc' = "install"
                  /\ UNCHANGED <<out, retval>>
             ELSE IF IsOrientChar(ch)
             THEN /\ conf' = [conf EXCEPT !.orient = OrientOf(ch)]
                  /\ pc' = "install"
                  /\ UNCHANGED <<out, retval>>
             ELSE IF ch = "q"
             THEN /\ out' = Append(out, "Quitting")
                  /\ Return(0)
                  /\ UNCHANGED conf
             ELSE IF ch = "nl"
             THEN UNCHANGED <<pc, conf, out, retval>>
             ELSE /\ out' = Append(out, "invalid input")
                  /\ UNCHANGED <<pc, conf, retval>>
    /\ UNCHANGED <<argv, getoptVars, globalVars, show_something, sample_rate, handler,
                   libVars, nsig, ndata>>

\* line 205: signal(SIGINT, __signal_handler)
InstallHandler ==
    /\ pc = "install"
    /\ handler' = TRUE
    /\ pc' = "set_running"
    /\ UNCHANGED <<argv, getoptVars, globalVars, localVars, libVars, out, retval, envVars>>

\* line 206: running = 1
SetRunning ==
    /\ pc = "set_running"
    /\ running' = 1
    /\ pc' = "init"
    /\ UNCHANGED <<argv, getoptVars, enable_mag, orientation_menu, localVars, handler,
                   libVars, out, retval, envVars>>

\* line 209: the blocking call rc_mpu_initialize_dmp(&data, conf)
InitCall ==
    /\ pc = "init"
    /\ initCalled' = TRUE
    /\ initConf' = conf
    /\ initRet' \in InitRetCodes
    /\ calls' = Append(calls, "rc_mpu_initialize_dmp")
    /\ pc' = "init_ret"
    /\ UNCHANGED <<argv, getoptVars, globalVars, localVars, handler, callback, out,
                   retval, envVars>>

\* lines 209-212: the test of the return code
InitCheck ==
    /\ pc = "init_ret"
    /\ IF InitFailed(initRet)
       THEN /\ out' = Append(out, "rc_mpu_initialize_failed")
            /\ Return(-1)
       ELSE /\ pc' = AfterInitOk
            /\ UNCHANGED <<out, retval>>
    /\ UNCHANGED <<argv, getoptVars, globalVars, localVars, handler, libVars, envVars>>

\* line 216: __print_header()
PrintHeader ==
    /\ pc = "header"
    /\ out' = Append(out, "header")
    /\ pc' = "set_cb"
    /\ UNCHANGED <<argv, getoptVars, globalVars, localVars, handler, libVars, retval,
                   envVars>>

\* line 219: rc_mpu_set_dmp_callback(&__print_data)
SetCallback ==
    /\ pc = "set_cb"
    /\ callback' = TRUE
    /\ calls' = Append(calls, "rc_mpu_set_dmp_callback")
    /\ pc' = "loop"
    /\ UNCHANGED <<argv, getoptVars, globalVars, localVars, handler, initCalled, initConf,
                   initRet, out, retval, envVars>>

\* line 223: the test of while(running)
LoopTest ==
    /\ pc = "loop"
    /\ pc' = IF LoopCond(running) THEN "sleep" ELSE "poweroff"
    /\ UNCHANGED <<argv, getoptVars, globalVars, localVars, handler, libVars, out, retval,
                   envVars>>

\* line 223: rc_usleep(100000) returns
Sleep ==
    /\ pc = "sleep"
    /\ pc' = "loop"
    /\ UNCHANGED <<argv, getoptVars, globalVars, localVars, handler, libVars, out, retval,
                   envVars>>

\* line 226: rc_mpu_power_off(), which also stops the DMP interrupts
PowerOff ==
    /\ pc = "poweroff"
    /\ callback' = FALSE
    /\ calls' = Append(calls, "rc_mpu_power_off")
    /\ pc' = "final"
    /\ UNCHANGED <<argv, getoptVars, globalVars, localVars, handler, initCalled, initConf,
                   initRet, out, retval, envVars>>

\* lines 227-229
Finish ==
    /\ pc = "final"
    /\ out' = Append(out, "newline")
    /\ Return(0)
    /\ UNCHANGED <<argv, getoptVars, globalVars, localVars, handler, libVars, envVars>>

\* SIGINT while __signal_handler is installed: running = 0
SignalHandler ==
    /\ Alive
    /\ handler
    /\ nsig < MaxSignals
    /\ running' = 0
    /\ nsig' = nsig + 1
    /\ UNCHANGED <<argv, getoptVars, pc, enable_mag, orientation_menu, localVars, handler,
                   libVars, out, retval, nstdin, ndata>>

\* SIGINT before line 205: the default action ends the process
SigintDefault ==
    /\ Alive
    /\ ~handler
    /\ pc' = "killed"
    /\ UNCHANGED <<argv, getoptVars, globalVars, localVars, handler, libVars, out, retval,
                   envVars>>

\* a DMP interrupt: the library calls the registered callback, __print_data
PrintData ==
    /\ Alive
    /\ callback
    /\ ndata < MaxData
    /\ out' = Append(out, "data")
    /\ ndata' = ndata + 1
    /\ UNCHANGED <<argv, getoptVars, pc, globalVars, localVars, handler, libVars, retval,
                   nsig, nstdin>>

Main ==
    \/ Start
    \/ ParseStep
    \/ CheckShow
    \/ OrientCheck
    \/ PromptRead
    \/ InstallHandler
    \/ SetRunning
    \/ InitCall
    \/ InitCheck
    \/ PrintHeader
    \/ SetCallback
    \/ LoopTest
    \/ Sleep
    \/ PowerOff
    \/ Finish

Next == Main \/ SignalHandler \/ SigintDefault \/ PrintData

Spec == Init /\ [][Next]_vars

\* the main thread keeps being scheduled, and the calls it blocks in return
FairSpec == Spec /\ WF_vars(Main)

----------------------------------------------------------------------------
(* Properties *)

Range(s) == { s[i] : i \in 1..Len(s) }

Occurrences(s, x) == Cardinality({ i \in 1..Len(s) : s[i] = x })

InLoop == pc \in {"loop", "sleep"}

LibOrder ==
    <<"rc_mpu_default_config", "rc_mpu_initialize_dmp", "rc_mpu_set_dmp_callback",
      "rc_mpu_power_off">>

\* C1: main leaves the idle loop only towards rc_mpu_power_off and only when a
\* handled SIGINT has cleared `running`; and once `running` is cleared while main
\* is in the loop, main eventually returns 0 with rc_mpu_power_off called exactly
\* once.
C1_IdleUntilSigint ==
    /\ [][(InLoop /\ ~InLoop') => (running = 0 /\ nsig > 0 /\ pc' = "poweroff")]_vars
    /\ (InLoop /\ running = 0)
          ~> (pc = "done" /\ retval = 0 /\ Occurrences(calls, "rc_mpu_power_off") = 1)

C1_Witness ==
    /\ pc = "done"
    /\ retval = 0
    /\ nsig > 0
    /\ ndata > 0
    /\ Occurrences(calls, "rc_mpu_power_off") = 1

\* C2: when rc_mpu_initialize_dmp has returned a nonzero code, main is at the test
\* of that code or has returned -1 with the failure message as its last output;
\* no header and no data line was printed, no callback was registered, the idle
\* loop was not entered and rc_mpu_power_off was not called.
C2_InitFailure ==
    (initCalled /\ initRet # 0) =>
        /\ pc \in {"init_ret", "done"}
        /\ pc = "done" => (retval = -1 /\ out # <<>> /\ out[Len(out)] = "rc_mpu_initialize_failed")
        /\ "header" \notin Range(out)
        /\ "data" \notin Range(out)
        /\ ~callback
        /\ calls = <<"rc_mpu_default_config", "rc_mpu_initialize_dmp">>

C2_Witness ==
    /\ initCalled
    /\ initRet # 0
    /\ pc = "done"
    /\ retval = -1

\* C3: the library calls made so far are a prefix of: default config, initialize,
\* set callback, power off; a callback is registered only after an initialisation
\* that returned 0 and after the header was printed; every data line comes after
\* the header; rc_mpu_power_off is called only after an initialisation that
\* returned 0.
C3_CallOrder ==
    /\ Len(calls) <= Len(LibOrder)
    /\ \A i \in 1..Len(calls) : calls[i] = LibOrder[i]
    /\ (callback \/ "rc_mpu_set_dmp_callback" \in Range(calls)) =>
          (initCalled /\ initRet = 0 /\ "header" \in Range(out))
    /\ \A i \in 1..Len(out) :
          out[i] = "data" => \E j \in 1..(i - 1) : out[j] = "header"
    /\ "rc_mpu_power_off" \in Range(calls) => (initCalled /\ initRet = 0)

C3_Witness ==
    /\ calls = LibOrder
    /\ "data" \in Range(out)
    /\ pc = "done"

\* C4: whenever rc_mpu_initialize_dmp is reached with a sample rate given with -r,
\* that rate divides 200.
C4_RateDivides200 ==
    (initCalled /\ "r" \in Range(opts)) =>
        (initConf.dmp_sample_rate > 0 /\ 200 % initConf.dmp_sample_rate = 0)

\* C5: a run whose command line was parsed to its end without -r, without -h and
\* without an invalid option, and that was not quit from the orientation menu, has
\* called rc_mpu_initialize_dmp with the default sample rate when main returns.
C5_DefaultRate ==
    (/\ pc = "done"
     /\ opts # <<>>
     /\ opts[Len(opts)] = "end"
     /\ Range(opts) \cap {"r", "h", "?"} = {}
     /\ "Quitting" \notin Range(out))
    => (initCalled /\ initConf.dmp_sample_rate = DefaultSampleRate)

\* C6: a run of the command line "-r 100" with a bare -m before or after it has
\* called rc_mpu_initialize_dmp with enable_magnetometer = 1 and sample rate 100
\* when main returns.
C6_BareMagFlag ==
    (/\ pc = "done"
     /\ argv \in { <<ProgName, <<"-", "r">>, <<"1", "0", "0">>, <<"-", "m">> >>,
                   <<ProgName, <<"-", "m">>, <<"-", "r">>, <<"1", "0", "0">> >> })
    => (/\ initCalled
        /\ initConf.enable_magnetometer = 1
        /\ initConf.dmp_sample_rate = 100)

====
